---------------------------- MODULE Spec2Model ----------------------------
(***************************************************************************)
(* A model of three independent utilities:                                 *)
(*   - qwen_service/main.py      the model service (token_count, generate) *)
(*   - tools/pdf_chunker_test/extract_pdf.py   the PDF text extractor      *)
(*   - tools/docx2md/docx2md.py  the DOCX to Markdown converter            *)
(* Python strings are TLA+ strings; None of a handle is the record None.   *)
(***************************************************************************)
EXTENDS Integers, Sequences, FiniteSets, TLC

VARIABLES
    (* ---- model service: process state (main.py) ---- *)
    LOCAL_MODE,     \* main.py:20, read once at process start
    _model,         \* main.py:23 global
    _tokenizer,     \* main.py:24 global
    pc,             \* per request slot: the statement it is about to run
    kind,           \* per request slot: "token_count" | "generate"
    text,           \* per request slot: len() of the text given to count_tokens_*
    loadCaller,     \* per request slot: who called load_local_model ("ctl" | "gl")
    lid,            \* per request slot: identity of the objects its load creates
    ret,            \* per request slot: the pair load_local_model returned
    loadResult,     \* per request slot: how its call of load_local_model ended
    count,          \* per request slot: value returned by count_tokens_*
    path,           \* per request slot: which branch of the counting path returned
    remote,         \* per request slot: the chat-completions response received
    resp,           \* per request slot: the HTTP response sent
    nreq,           \* requests started so far
    nLoads,         \* how many times the loading block (lines 53-69) was entered
    loadOK,         \* some load ran to line 67 ("Model loaded successfully")
    allCold,        \* every request so far started while the handle was null
    (* ---- PDF tool (extract_pdf.py) ---- *)
    pdf_pc, pdf_argv, pdf_lib, pdf_i, pdf_text, pdf_stdout, pdf_stderr, pdf_exit,
    (* ---- DOCX tool (docx2md.py) ---- *)
    dx_pc, input_path, output_path, input_exists, richResult, rawResult,
    para, remaining, text_parts, dx_text, excMsg, out_file, dx_success, dx_exit

svcVars == <<LOCAL_MODE, _model, _tokenizer, pc, kind, text, loadCaller, lid, ret, loadResult,
             count, path, remote, resp, nreq, nLoads, loadOK, allCold>>
pdfVars == <<pdf_pc, pdf_argv, pdf_lib, pdf_i, pdf_text, pdf_stdout, pdf_stderr, pdf_exit>>
docxVars == <<dx_pc, input_path, output_path, input_exists, richResult, rawResult,
              para, remaining, text_parts, dx_text, excMsg, out_file, dx_success, dx_exit>>
vars == <<svcVars, pdfVars, docxVars>>

(***************************************************************************)
(* Bounds                                                                  *)
(***************************************************************************)
NSlots == 2
MaxRequests == 3
MaxTextLen == 4
MaxTokens == 1
MaxPages == 2
MaxParas == 2

Slots == 1..NSlots
\* the text lengths tried: empty, and one on either side of a multiple of 4
TextLens == {0, MaxTextLen - 1, MaxTextLen}
\* the token counts a tokenizer or the remote API may report
TokenCounts == 0..MaxTokens

(***************************************************************************)
(* Model service                                                           *)
(***************************************************************************)
None == [k |-> "None", id |-> 0]
Tokenizer(n) == [k |-> "tokenizer", id |-> n]
Model(n) == [k |-> "model", id |-> n]

IntVal(n) == [t |-> "int", v |-> n]
NoneVal == [t |-> "None", v |-> 0]
BadVal == [t |-> "str", v |-> 0]

NoResp == [status |-> 0, token_count |-> NoneVal, text |-> 0, detail |-> ""]
NoRemote == [status |-> 0, body |-> ""]

\* len(text) // 4
Fallback(n) == n \div 4

\* pydantic: a field declared int accepts an int only
IsInt(v) == v.t = "int"
\* pydantic: a field declared Optional[int] accepts an int or None
IsOptionalInt(v) == v.t \in {"int", "None"}

HTTPException(s, d) == [status |-> s, token_count |-> NoneVal, text |-> 0, detail |-> d]

\* str(e) of an HTTPException: "<status>: <detail>", or "" in releases whose
\* HTTPException gives Exception no args
StrHTTPException(s, d) == {ToString(s) \o ": " \o d, ""}

InitService(modes) ==
    /\ LOCAL_MODE \in modes
    /\ _model = None
    /\ _tokenizer = None
    /\ pc = [t \in Slots |-> "idle"]
    /\ kind = [t \in Slots |-> "none"]
    /\ text = [t \in Slots |-> 0]
    /\ loadCaller = [t \in Slots |-> "none"]
    /\ lid = [t \in Slots |-> 0]
    /\ ret = [t \in Slots |-> <<None, None>>]
    /\ loadResult = [t \in Slots |-> "none"]
    /\ count = [t \in Slots |-> NoneVal]
    /\ path = [t \in Slots |-> "none"]
    /\ remote = [t \in Slots |-> NoRemote]
    /\ resp = [t \in Slots |-> NoResp]
    /\ nreq = 0
    /\ nLoads = 0
    /\ loadOK = FALSE
    /\ allCold = TRUE


(* ---- the two request handlers: entry ---- *)

HandleIsNull == _model = None /\ _tokenizer = None

\* POST /api/v1/token_count arrives with a text of length n (lines 195-202)
StartTokenCount(t, n) ==
    /\ pc[t] = "idle"
    /\ nreq < MaxRequests
    /\ nreq' = nreq + 1
    /\ kind' = [kind EXCEPT ![t] = "token_count"]
    /\ text' = [text EXCEPT ![t] = n]
    /\ pc' = [pc EXCEPT ![t] = IF LOCAL_MODE THEN "ctl_82" ELSE "cta_109"]
    /\ ret' = [ret EXCEPT ![t] = <<None, None>>]
    /\ loadResult' = [loadResult EXCEPT ![t] = "none"]
    /\ lid' = [lid EXCEPT ![t] = 0]
    /\ loadCaller' = [loadCaller EXCEPT ![t] = "none"]
    /\ count' = [count EXCEPT ![t] = NoneVal]
    /\ path' = [path EXCEPT ![t] = "none"]
    /\ remote' = [remote EXCEPT ![t] = NoRemote]
    /\ resp' = [resp EXCEPT ![t] = NoResp]
    /\ allCold' = (allCold /\ HandleIsNull)
    /\ UNCHANGED <<pdfVars, docxVars, LOCAL_MODE, _model, _tokenizer, nLoads, loadOK>>

\* POST /api/v1/generate arrives (lines 209-216)
StartGenerate(t) ==
    /\ pc[t] = "idle"
    /\ nreq < MaxRequests
    /\ nreq' = nreq + 1
    /\ kind' = [kind EXCEPT ![t] = "generate"]
    /\ text' = [text EXCEPT ![t] = 0]
    /\ pc' = [pc EXCEPT ![t] = IF LOCAL_MODE THEN "gl_125" ELSE "ga_179"]
    /\ ret' = [ret EXCEPT ![t] = <<None, None>>]
    /\ loadResult' = [loadResult EXCEPT ![t] = "none"]
    /\ lid' = [lid EXCEPT ![t] = 0]
    /\ loadCaller' = [loadCaller EXCEPT ![t] = "none"]
    /\ count' = [count EXCEPT ![t] = NoneVal]
    /\ path' = [path EXCEPT ![t] = "none"]
    /\ remote' = [remote EXCEPT ![t] = NoRemote]
    /\ resp' = [resp EXCEPT ![t] = NoResp]
    /\ allCold' = (allCold /\ HandleIsNull)
    /\ UNCHANGED <<pdfVars, docxVars, LOCAL_MODE, _model, _tokenizer, nLoads, loadOK>>

\* the handler returns: its locals and those of the functions it called are gone
Return(t) ==
    /\ pc' = [pc EXCEPT ![t] = "idle"]
    /\ loadCaller' = [loadCaller EXCEPT ![t] = "none"]
    /\ lid' = [lid EXCEPT ![t] = 0]
    /\ ret' = [ret EXCEPT ![t] = <<None, None>>]
    /\ count' = [count EXCEPT ![t] = NoneVal]

Continue(t, next) ==
    /\ pc' = [pc EXCEPT ![t] = next]
    /\ UNCHANGED <<loadCaller, lid, ret, count>>

(* ---- load_local_model (lines 46-75) ---- *)

\* line 50: if _model is not None
CacheHit == _model # None

\* lines 72, 75: return None, None
LoadFailure == <<None, None>>

ReturnFromLoad(t) == IF loadCaller[t] = "ctl" THEN "ctl_83" ELSE "gl_126"

\* lines 50-51: if _model is not None: return _model, _tokenizer
LLM_50(t) ==
    /\ pc[t] = "llm_50"
    /\ IF CacheHit
       THEN /\ ret' = [ret EXCEPT ![t] = <<_model, _tokenizer>>]
            /\ loadResult' = [loadResult EXCEPT ![t] = "cached"]
            /\ pc' = [pc EXCEPT ![t] = ReturnFromLoad(t)]
       ELSE /\ ret' = ret
            /\ loadResult' = loadResult
            /\ pc' = [pc EXCEPT ![t] = "llm_60"]
    /\ UNCHANGED <<pdfVars, docxVars, LOCAL_MODE, _model, _tokenizer, kind, text, loadCaller, lid,
                   count, path, remote, resp, nreq, nLoads, loadOK, allCold>>

\* lines 53-60: the imports, then _tokenizer = AutoTokenizer.from_pretrained(...)
\* "ImportError" is caught on line 70, any other exception on line 73
LLM_60(t) ==
    /\ pc[t] = "llm_60"
    /\ nLoads' = nLoads + 1
    /\ lid' = [lid EXCEPT ![t] = nLoads + 1]
    /\ \E outcome \in {"ImportError", "TokenizerError", "ok"} :
          IF outcome = "ok"
          THEN /\ _tokenizer' = Tokenizer(nLoads + 1)
               /\ pc' = [pc EXCEPT ![t] = "llm_61"]
               /\ ret' = ret
               /\ loadResult' = loadResult
          ELSE /\ _tokenizer' = _tokenizer
               /\ loadResult' = [loadResult EXCEPT ![t] = outcome]
               /\ ret' = [ret EXCEPT ![t] = LoadFailure]
               /\ pc' = [pc EXCEPT ![t] = ReturnFromLoad(t)]
    /\ UNCHANGED <<pdfVars, docxVars, LOCAL_MODE, _model, kind, text, loadCaller,
                   count, path, remote, resp, nreq, loadOK, allCold>>

\* lines 61-67: _model = AutoModelForCausalLM.from_pretrained(...)
LLM_61(t) ==
    /\ pc[t] = "llm_61"
    /\ \E outcome \in {"ModelError", "ok"} :
          /\ loadResult' = [loadResult EXCEPT ![t] = outcome]
          /\ IF outcome = "ok"
             THEN /\ _model' = Model(lid[t])
                  /\ loadOK' = TRUE
                  /\ pc' = [pc EXCEPT ![t] = "llm_69"]
                  /\ ret' = ret
             ELSE /\ _model' = _model
                  /\ loadOK' = loadOK
                  /\ ret' = [ret EXCEPT ![t] = LoadFailure]
                  /\ pc' = [pc EXCEPT ![t] = ReturnFromLoad(t)]
    /\ UNCHANGED <<pdfVars, docxVars, LOCAL_MODE, _tokenizer, kind, text, loadCaller, lid,
                   count, path, remote, resp, nreq, nLoads, allCold>>

\* line 69: return _model, _tokenizer (the globals, as they are now)
LLM_69(t) ==
    /\ pc[t] = "llm_69"
    /\ ret' = [ret EXCEPT ![t] = <<_model, _tokenizer>>]
    /\ pc' = [pc EXCEPT ![t] = ReturnFromLoad(t)]
    /\ UNCHANGED <<pdfVars, docxVars, loadResult, LOCAL_MODE, _model, _tokenizer, kind, text, loadCaller, lid,
                   count, path, remote, resp, nreq, nLoads, loadOK, allCold>>

(* ---- count_tokens_local (lines 78-94) ---- *)

ReturnFromCount(t) == IF kind[t] = "token_count" THEN "tc_204" ELSE "g_228"

\* a slip in the unpacking on line 83: _tokenizer, _ = load_local_model()
TokenizerFromLoadSwapped(r) == r[1]

\* a slip on line 83: load_local_model() called and its result dropped
TokenizerNotAssigned(r) == _tokenizer

\* line 83: _, _tokenizer = load_local_model()
TokenizerFromLoad(r) == r[2]

\* line 82: if _tokenizer is None: call load_local_model
CTL_82(t) ==
    /\ pc[t] = "ctl_82"
    /\ IF _tokenizer = None
       THEN /\ loadCaller' = [loadCaller EXCEPT ![t] = "ctl"]
            /\ pc' = [pc EXCEPT ![t] = "llm_50"]
       ELSE /\ loadCaller' = loadCaller
            /\ pc' = [pc EXCEPT ![t] = "ctl_85"]
    /\ UNCHANGED <<pdfVars, docxVars, loadResult, LOCAL_MODE, _model, _tokenizer, kind, text, lid, ret,
                   count, path, remote, resp, nreq, nLoads, loadOK, allCold>>

\* line 83: the assignment of the returned pair
CTL_83(t) ==
    /\ pc[t] = "ctl_83"
    /\ _tokenizer' = TokenizerFromLoad(ret[t])
    /\ pc' = [pc EXCEPT ![t] = "ctl_85"]
    /\ UNCHANGED <<pdfVars, docxVars, loadResult, LOCAL_MODE, _model, kind, text, loadCaller, lid, ret,
                   count, path, remote, resp, nreq, nLoads, loadOK, allCold>>

\* lines 85-87: if _tokenizer is None: return len(text) // 4
CTL_85(t) ==
    /\ pc[t] = "ctl_85"
    /\ IF _tokenizer = None
       THEN /\ count' = [count EXCEPT ![t] = IntVal(Fallback(text[t]))]
            /\ path' = [path EXCEPT ![t] = "no_tokenizer"]
            /\ pc' = [pc EXCEPT ![t] = ReturnFromCount(t)]
       ELSE /\ count' = count
            /\ path' = path
            /\ pc' = [pc EXCEPT ![t] = "ctl_90"]
    /\ UNCHANGED <<pdfVars, docxVars, loadResult, LOCAL_MODE, _model, _tokenizer, kind, text, loadCaller, lid, ret,
                   remote, resp, nreq, nLoads, loadOK, allCold>>

\* lines 89-94: tokens = _tokenizer.encode(...); return len(tokens)
\* a None _tokenizer here (cleared since line 85) raises AttributeError
CTL_90(t) ==
    /\ pc[t] = "ctl_90"
    /\ \/ /\ _tokenizer # None
          /\ \E k \in TokenCounts :
                /\ count' = [count EXCEPT ![t] = IntVal(k)]
                /\ path' = [path EXCEPT ![t] = "encoded"]
       \/ /\ count' = [count EXCEPT ![t] = IntVal(Fallback(text[t]))]
          /\ path' = [path EXCEPT ![t] = "encode_raised"]
    /\ pc' = [pc EXCEPT ![t] = ReturnFromCount(t)]
    /\ UNCHANGED <<pdfVars, docxVars, loadResult, LOCAL_MODE, _model, _tokenizer, kind, text, loadCaller, lid, ret,
                   remote, resp, nreq, nLoads, loadOK, allCold>>

(* ---- generate_local (lines 121-159) ---- *)

\* lines 125-126: if _model is None or _tokenizer is None: call load_local_model
GL_125(t) ==
    /\ pc[t] = "gl_125"
    /\ IF _model = None \/ _tokenizer = None
       THEN /\ loadCaller' = [loadCaller EXCEPT ![t] = "gl"]
            /\ pc' = [pc EXCEPT ![t] = "llm_50"]
       ELSE /\ loadCaller' = loadCaller
            /\ pc' = [pc EXCEPT ![t] = "gl_128"]
    /\ UNCHANGED <<pdfVars, docxVars, loadResult, LOCAL_MODE, _model, _tokenizer, kind, text, lid, ret,
                   count, path, remote, resp, nreq, nLoads, loadOK, allCold>>

\* line 126: _model, _tokenizer = load_local_model()
GL_126(t) ==
    /\ pc[t] = "gl_126"
    /\ _model' = ret[t][1]
    /\ _tokenizer' = ret[t][2]
    /\ pc' = [pc EXCEPT ![t] = "gl_128"]
    /\ UNCHANGED <<pdfVars, docxVars, loadResult, LOCAL_MODE, kind, text, loadCaller, lid, ret,
                   count, path, remote, resp, nreq, nLoads, loadOK, allCold>>

\* lines 128-129: raise HTTPException(503), re-raised by generate (lines 229-230)
GL_128(t) ==
    /\ pc[t] = "gl_128"
    /\ IF _model = None \/ _tokenizer = None
       THEN /\ resp' = [resp EXCEPT ![t] = HTTPException(503, "Local model not available")]
            /\ Return(t)
       ELSE /\ resp' = resp
            /\ Continue(t, "gl_131")
    /\ UNCHANGED <<pdfVars, docxVars, loadResult, LOCAL_MODE, _model, _tokenizer, kind, text,
                   path, remote, nreq, nLoads, loadOK, allCold>>

\* lines 131-159: chat template, generation, decoding; any exception (also the
\* AttributeError of a handle cleared since line 128) becomes HTTPException(500).
\* On success generate goes on to count_tokens_local(text) (line 222).
GL_131(t) ==
    /\ pc[t] = "gl_131"
    /\ \/ /\ _model # None /\ _tokenizer # None
          /\ \E g \in TextLens : text' = [text EXCEPT ![t] = g]
          /\ Continue(t, "ctl_82")
          /\ resp' = resp
       \/ /\ \E m \in {"AttributeError", "CUDA out of memory"} :
                resp' = [resp EXCEPT ![t] = HTTPException(500, "Generation failed: " \o m)]
          /\ Return(t)
          /\ text' = text
    /\ UNCHANGED <<pdfVars, docxVars, loadResult, LOCAL_MODE, _model, _tokenizer, kind,
                   path, remote, nreq, nLoads, loadOK, allCold>>


(* ---- count_tokens_api (lines 97-118) ---- *)

\* what requests.post gives back: an exception (requests missing, timeout,
\* network error) or a response with a status and a body
ApiStatuses == {200, 429, 500}
TokenCountValues == {IntVal(k) : k \in TokenCounts} \cup {NoneVal, BadVal}
ApiJson == [shape : {"invalid", "array"}, has_key : {FALSE}, value : {NoneVal}]
           \cup [shape : {"object"}, has_key : {FALSE}, value : {NoneVal}]
           \cup [shape : {"object"}, has_key : {TRUE}, value : TokenCountValues]
ApiCountReplies == [raised : {TRUE}, status : {0}, json : {[shape |-> "invalid", has_key |-> FALSE, value |-> NoneVal]}]
                   \cup [raised : {FALSE}, status : ApiStatuses, json : ApiJson]

\* lines 109-118: the value count_tokens_api returns for reply r and a text of length n
\* (response.json() raising and result.get on a non-object are caught on line 116)
count_tokens_api(r, n) ==
    IF r.raised THEN IntVal(Fallback(n))
    ELSE IF r.status = 200
         THEN IF r.json.shape = "object"
              THEN IF r.json.has_key THEN r.json.value ELSE IntVal(Fallback(n))
              ELSE IntVal(Fallback(n))
         ELSE IntVal(Fallback(n))

\* which branch of lines 109-118 reply r takes
ApiPath(r) ==
    IF r.raised THEN "exception"
    ELSE IF r.status # 200 THEN "non200"
    ELSE IF r.json.shape # "object" THEN "bad_json"
    ELSE IF ~r.json.has_key THEN "no_key"
    ELSE IF IsInt(r.json.value) THEN "api_count" ELSE "unusable_value"

CTA_109(t) ==
    /\ pc[t] = "cta_109"
    /\ \E r \in ApiCountReplies :
          /\ count' = [count EXCEPT ![t] = count_tokens_api(r, text[t])]
          /\ path' = [path EXCEPT ![t] = ApiPath(r)]
    /\ pc' = [pc EXCEPT ![t] = ReturnFromCount(t)]
    /\ UNCHANGED <<pdfVars, docxVars, loadResult, LOCAL_MODE, _model, _tokenizer, kind, text, loadCaller, lid, ret,
                   remote, resp, nreq, nLoads, loadOK, allCold>>

(* ---- generate_api (lines 162-186) ---- *)

Bodies == {"", "quota exceeded"}
ChatReplies == [raised : {TRUE}, status : {0}, body : {"timeout"}, content : {0}, shaped : {FALSE}]
               \cup [raised : {FALSE}, status : ApiStatuses \ {200}, body : Bodies, content : {0}, shaped : {FALSE}]
               \cup [raised : {FALSE}, status : {200}, body : {""}, content : {0}, shaped : {FALSE}]
               \cup [raised : {FALSE}, status : {200}, body : {""}, content : TextLens, shaped : {TRUE}]

\* line 184: raise HTTPException(status_code=response.status_code, detail=response.text)
Raise184(r) == HTTPException(r.status, r.body)

\* lines 185-186: except Exception as e: raise HTTPException(500, f"API call failed: {str(e)}")
Except185(msg) == HTTPException(500, "API call failed: " \o msg)

\* the exception that leaves generate_api for reply r: the one raised on line 184 is
\* an Exception raised inside the try block, so line 185 catches it
GenerateApiErrors(r) ==
    IF r.raised THEN {Except185(r.body)}
    ELSE IF r.status # 200
         THEN {Except185(m) : m \in StrHTTPException(Raise184(r).status, Raise184(r).detail)}
         ELSE {Except185("KeyError")}

GA_179(t) ==
    /\ pc[t] = "ga_179"
    /\ \E r \in ChatReplies :
          /\ remote' = [remote EXCEPT ![t] = [status |-> r.status, body |-> r.body]]
          /\ IF ~r.raised /\ r.status = 200 /\ r.shaped
             THEN /\ text' = [text EXCEPT ![t] = r.content]
                  /\ Continue(t, "cta_109")
                  /\ resp' = resp
             ELSE /\ \E e \in GenerateApiErrors(r) : resp' = [resp EXCEPT ![t] = e]
                  /\ Return(t)
                  /\ text' = text
    /\ UNCHANGED <<pdfVars, docxVars, loadResult, LOCAL_MODE, _model, _tokenizer, kind,
                   path, nreq, nLoads, loadOK, allCold>>

(* ---- the handlers' responses ---- *)

\* lines 204-206: TokenCountResponse(token_count=count); a validation error is an
\* Exception, turned into HTTPException(500) on line 206
TC_204(t) ==
    /\ pc[t] = "tc_204"
    /\ resp' = [resp EXCEPT ![t] =
                  IF IsInt(count[t])
                  THEN [status |-> 200, token_count |-> count[t], text |-> 0, detail |-> ""]
                  ELSE HTTPException(500, "validation error")]
    /\ Return(t)
    /\ UNCHANGED <<pdfVars, docxVars, loadResult, LOCAL_MODE, _model, _tokenizer, kind, text,
                   path, remote, nreq, nLoads, loadOK, allCold>>

\* lines 228-232: GenerateResponse(text=text, token_count=token_count)
G_228(t) ==
    /\ pc[t] = "g_228"
    /\ resp' = [resp EXCEPT ![t] =
                  IF IsOptionalInt(count[t])
                  THEN [status |-> 200, token_count |-> count[t], text |-> text[t], detail |-> ""]
                  ELSE HTTPException(500, "validation error")]
    /\ Return(t)
    /\ UNCHANGED <<pdfVars, docxVars, loadResult, LOCAL_MODE, _model, _tokenizer, kind, text,
                   path, remote, nreq, nLoads, loadOK, allCold>>

(* ---- the other two programs do not run in the service's specifications ---- *)
NoLib == [kind |-> "none", pages |-> <<>>]
PdfIdle ==
    /\ pdf_pc = "off" /\ pdf_argv = FALSE /\ pdf_lib = <<NoLib, NoLib, NoLib>>
    /\ pdf_i = 0 /\ pdf_text = [none |-> TRUE, s |-> ""]
    /\ pdf_stdout = "" /\ pdf_stderr = "" /\ pdf_exit = -1

NoPara == [text |-> "", style |-> [kind |-> "None", name |-> ""], runs |-> <<>>]
DocxIdle ==
    /\ dx_pc = "off" /\ input_path = "" /\ output_path = "" /\ input_exists = FALSE
    /\ richResult = "not_run" /\ rawResult = "not_run" /\ para = NoPara
    /\ remaining = 0 /\ text_parts = <<>> /\ dx_text = "" /\ excMsg = ""
    /\ out_file = [path |-> "", content |-> "", state |-> "absent"]
    /\ dx_success = FALSE /\ dx_exit = -1

(* ---- specifications of the model service ---- *)

\* no request is being handled
Serial == \A u \in Slots : pc[u] = "idle"

\* requests handled one at a time: the next one starts, in the first slot, when
\* no request is being handled
SerialStart(t) == Serial /\ t = 1

LocalStep(t) ==
    \/ LLM_50(t) \/ LLM_60(t) \/ LLM_61(t) \/ LLM_69(t)
    \/ CTL_82(t) \/ CTL_83(t) \/ CTL_85(t) \/ CTL_90(t)
    \/ GL_125(t) \/ GL_126(t) \/ GL_128(t) \/ GL_131(t)
    \/ TC_204(t) \/ G_228(t)

RemoteStep(t) == CTA_109(t) \/ GA_179(t)

\* requests handled one at a time, in either mode
NextService ==
    \E t \in Slots :
       \/ SerialStart(t) /\ \E n \in TextLens : StartTokenCount(t, n)
       \/ SerialStart(t) /\ StartGenerate(t)
       \/ LocalStep(t)
       \/ RemoteStep(t)

InitServiceSerial == InitService(BOOLEAN) /\ PdfIdle /\ DocxIdle

SpecService == InitServiceSerial /\ [][NextService]_vars

\* local mode, requests in flight together, interleaved between statements
NextConcurrent ==
    \E t \in Slots :
       \/ StartTokenCount(t, MaxTextLen)
       \/ StartGenerate(t)
       \/ LocalStep(t)

InitServiceConcurrent == InitService({TRUE}) /\ PdfIdle /\ DocxIdle

SpecConcurrent == InitServiceConcurrent /\ [][NextConcurrent]_vars


(***************************************************************************)
(* Python string operations used by the two tools                          *)
(***************************************************************************)
CharAt(s, i) == SubSeq(s, i, i)

\* the characters str.strip() removes
Whitespace == {" ", "\n", "\t", "\r"}

RECURSIVE LStrip(_)
LStrip(s) == IF Len(s) > 0 /\ CharAt(s, 1) \in Whitespace
             THEN LStrip(SubSeq(s, 2, Len(s))) ELSE s

RECURSIVE RStrip(_)
RStrip(s) == IF Len(s) > 0 /\ CharAt(s, Len(s)) \in Whitespace
             THEN RStrip(SubSeq(s, 1, Len(s) - 1)) ELSE s

\* str.strip()
Strip(s) == RStrip(LStrip(s))

\* str.startswith(prefix)
StartsWith(s, prefix) == Len(s) >= Len(prefix) /\ SubSeq(s, 1, Len(prefix)) = prefix

\* sub in s
Contains(s, sub) ==
    \E i \in 1..(Len(s) - Len(sub) + 1) : SubSeq(s, i, i + Len(sub) - 1) = sub

\* str.replace(a, b) for one-character a
RECURSIVE Replace(_, _, _)
Replace(s, a, b) ==
    IF s = "" THEN ""
    ELSE (IF CharAt(s, 1) = a THEN b ELSE CharAt(s, 1)) \o Replace(SubSeq(s, 2, Len(s)), a, b)

\* c * n
RECURSIVE Repeat(_, _)
Repeat(c, n) == IF n = 0 THEN "" ELSE c \o Repeat(c, n - 1)

\* str.rfind(c) + 1: the last position of character c in s, 0 when absent
RECURSIVE RFind(_, _)
RFind(s, c) == IF s = "" THEN 0
               ELSE IF CharAt(s, Len(s)) = c THEN Len(s)
               ELSE RFind(SubSeq(s, 1, Len(s) - 1), c)

\* ''.join(parts)
RECURSIVE Concat(_)
Concat(parts) == IF parts = <<>> THEN "" ELSE Head(parts) \o Concat(Tail(parts))

\* sep.join(parts)
RECURSIVE Join(_, _)
Join(sep, parts) ==
    IF parts = <<>> THEN ""
    ELSE IF Len(parts) = 1 THEN Head(parts)
    ELSE Head(parts) \o sep \o Join(sep, Tail(parts))

\* all sequences over S of length at most n
SeqsUpTo(S, n) == UNION {[1..k -> S] : k \in 0..n}

(***************************************************************************)
(* PDF tool (extract_pdf.py)                                               *)
(***************************************************************************)
NoText == [none |-> TRUE, s |-> ""]
SomeText(t) == [none |-> FALSE, s |-> t]

\* page.extract_text() of one page: "" stands for None and for the empty string
PageTexts == {"", " ", "a"}

\* how one library behaves on the file: it cannot be imported, it raises an
\* Exception while reading, the run is interrupted by a BaseException that is no
\* Exception (KeyboardInterrupt), or it yields the texts of the pages
LibBehaviours ==
    [kind : {"ImportError", "Exception", "interrupt"}, pages : {<<>>}]
    \cup [kind : {"pages"}, pages : SeqsUpTo(PageTexts, MaxPages)]

\* lines 22-27: text += page_text + "\n" for every page whose text is truthy
RECURSIVE PagesText(_)
PagesText(pages) ==
    IF pages = <<>> THEN ""
    ELSE (IF Head(pages) # "" THEN Head(pages) \o "\n" ELSE "") \o PagesText(Tail(pages))

\* a slip on lines 15, 28, 42: return text
TextAlways(t) == SomeText(t)

\* lines 15, 28, 42: return text if text.strip() else None
TextOrNone(t) == IF Strip(t) # "" THEN SomeText(t) ELSE NoText

\* extract_with_pdfplumber / extract_with_pypdf / extract_with_pypdf2: the value
\* returned for a library that does not interrupt (lines 5-17, 19-30, 32-44)
extract_with(lib) ==
    IF lib.kind = "pages" THEN TextOrNone(PagesText(lib.pages)) ELSE NoText

\* line 58: isinstance(result, tuple) and result[0] is None; an extractor returns
\* a str or None, never a tuple
IsNoneTuple(result) == FALSE

\* line 55: pdfplumber, pypdf, PyPDF2
NExtractors == 3

InitPdf ==
    /\ pdf_pc = "start"
    /\ pdf_argv \in BOOLEAN
    /\ pdf_lib \in [1..NExtractors -> LibBehaviours]
    /\ pdf_i = 0
    /\ pdf_text = NoText
    /\ pdf_stdout = ""
    /\ pdf_stderr = ""
    /\ pdf_exit = -1
    /\ InitService({TRUE})
    /\ DocxIdle

\* lines 47-54
Pdf_47 ==
    /\ pdf_pc = "start"
    /\ IF ~pdf_argv
       THEN /\ pdf_stdout' = "Usage: python3 extract_pdf.py <pdf_file>\n"
            /\ pdf_exit' = 1
            /\ pdf_pc' = "exited"
            /\ pdf_i' = pdf_i
       ELSE /\ pdf_i' = 1
            /\ pdf_pc' = "loop"
            /\ UNCHANGED <<pdf_stdout, pdf_exit>>
    /\ pdf_text' = NoText
    /\ UNCHANGED <<pdf_argv, pdf_lib, pdf_stderr, svcVars, docxVars>>

\* lines 55-63: one turn of the loop over the extractors
Pdf_55 ==
    /\ pdf_pc = "loop"
    /\ IF pdf_i > NExtractors
       THEN /\ pdf_pc' = "after"
            /\ UNCHANGED <<pdf_i, pdf_text>>
       ELSE IF pdf_lib[pdf_i].kind = "interrupt"
            THEN \* lines 62-63: except: continue
                 /\ pdf_i' = pdf_i + 1
                 /\ UNCHANGED <<pdf_pc, pdf_text>>
            ELSE IF IsNoneTuple(extract_with(pdf_lib[pdf_i]))
                 THEN \* line 59: continue
                      /\ pdf_i' = pdf_i + 1
                      /\ UNCHANGED <<pdf_pc, pdf_text>>
                 ELSE \* lines 60-61: text = result; break
                      /\ pdf_text' = extract_with(pdf_lib[pdf_i])
                      /\ pdf_pc' = "after"
                      /\ pdf_i' = pdf_i
    /\ UNCHANGED <<pdf_argv, pdf_lib, pdf_stdout, pdf_stderr, pdf_exit, svcVars, docxVars>>

\* lines 65-69 (the message of line 66 is written here in ASCII)
Pdf_65 ==
    /\ pdf_pc = "after"
    /\ IF pdf_text.none
       THEN /\ pdf_stderr' = "cannot extract PDF text, install pdfplumber or PyPDF2\n"
            /\ pdf_exit' = 1
            /\ pdf_stdout' = pdf_stdout
       ELSE /\ pdf_stdout' = pdf_stdout \o pdf_text.s
            /\ pdf_exit' = 0
            /\ pdf_stderr' = pdf_stderr
    /\ pdf_pc' = "exited"
    /\ UNCHANGED <<pdf_argv, pdf_lib, pdf_i, pdf_text, svcVars, docxVars>>

NextPdf == Pdf_47 \/ Pdf_55 \/ Pdf_65

SpecPdf == InitPdf /\ [][NextPdf]_vars

(***************************************************************************)
(* DOCX tool (docx2md.py)                                                  *)
(***************************************************************************)

\* the paths given with -input
InputDirs == {"", "v.1/"}
InputStems == {"r", "a_b", "x-y_z"}
InputExts == {".docx", ""}
InputPaths == {d \o st \o e : d \in InputDirs, st \in InputStems, e \in InputExts}

\* some_path.md given with -output, or "" for no -output (None)
OutputArgs == {"", "out.md"}

\* os.path.basename(p)
Basename(p) == SubSeq(p, RFind(p, "/") + 1, Len(p))

\* the position of the dot that starts the suffix of file name b, 0 when it has
\* none (a leading dot starts no suffix)
SuffixDot(b) == IF RFind(b, ".") > 1 THEN RFind(b, ".") ELSE 0

\* Path(p).stem
PathStem(p) ==
    LET b == Basename(p)
    IN  IF SuffixDot(b) = 0 THEN b ELSE SubSeq(b, 1, SuffixDot(b) - 1)

\* os.path.splitext(p)[0]
SplitextRoot(p) ==
    LET b == Basename(p)
    IN  IF SuffixDot(b) = 0 THEN p ELSE SubSeq(p, 1, Len(p) - (Len(b) - SuffixDot(b) + 1))

\* para.style of python-docx: None, a style whose name cannot be read (the
\* access raises), or a style with a name
NoStyle == [kind |-> "None", name |-> ""]
BadStyle == [kind |-> "raises", name |-> ""]
StyleNames == {"Normal", "Title", "Heading 1", "Heading 2", "Heading 3", "Heading 4",
               "Heading 5", "Heading 10", "Heading"}
Styles == {NoStyle, BadStyle} \cup [kind : {"name"}, name : StyleNames]

\* the paragraphs python-docx yields, and the runs of w:t text the XML holds
\* ("" stands for a w:t without text)
RichParas == [text : {" ", " x "}, style : Styles, runs : {<<>>}]
RawParas == [text : {""}, style : {NoStyle}, runs : {<<>>, <<" ">>, <<"x", "", "y ">>}]

ErrorTexts == {"File is not a zip file", "no item named word/document.xml"}

\* line 75: f"Error extracting text: {str(e)}"
ErrorMessage(m) == "Error extracting text: " \o m

\* lines 30-40: the level of a style whose name starts with 'Heading'
HeadingLevel(name) ==
    IF Contains(name, "Heading 1") \/ Contains(name, "Title") THEN 1
    ELSE IF Contains(name, "Heading 2") THEN 2
    ELSE IF Contains(name, "Heading 3") THEN 3
    ELSE IF Contains(name, "Heading 4") THEN 4
    ELSE 2

\* lines 27-46: what one non-blank paragraph adds to text_parts
ParagraphLine(p) ==
    LET t == Strip(p.text)
    IN  IF p.style.kind = "raises" THEN t \o "\n\n"
        ELSE IF p.style.kind = "name" /\ p.style.name # ""
                /\ StartsWith(p.style.name, "Heading")
             THEN Repeat("#", HeadingLevel(p.style.name)) \o " " \o t \o "\n\n"
             ELSE t \o "\n\n"

\* lines 63-68: the text of one w:p
RawParagraphText(p) == Strip(Concat(p.runs))

\* a slip on line 49: except Exception
FallsBackOnAnyFailure(failure) == TRUE

\* lines 49-50: which failures of the python-docx block lead on to the XML parse
FallsBackToXml(failure) == failure = "ImportError"

\* a slip on line 91: only the underscores replaced
MarkdownUnderscoresOnly(p, body) ==
    "# " \o Replace(PathStem(p), "_", " ") \o "\n\n"
    \o "> DOCX: " \o Basename(p) \o "\n\n"
    \o "---\n\n"
    \o body

\* lines 91-95 (the label of the provenance line, line 93, is written here in ASCII)
Markdown(p, body) ==
    "# " \o Replace(Replace(PathStem(p), "_", " "), "-", " ") \o "\n\n"
    \o "> DOCX: " \o Basename(p) \o "\n\n"
    \o "---\n\n"
    \o body

NoFile == [path |-> "", content |-> "", state |-> "absent"]

InitDocx ==
    /\ dx_pc = "start"
    /\ input_path \in InputPaths
    /\ output_path \in OutputArgs
    /\ input_exists \in BOOLEAN
    /\ richResult = "not_run"
    /\ rawResult = "not_run"
    /\ para = NoPara
    /\ remaining = 0
    /\ text_parts = <<>>
    /\ dx_text = ""
    /\ excMsg = ""
    /\ out_file = NoFile
    /\ dx_success = FALSE
    /\ dx_exit = -1
    /\ InitService({TRUE})
    /\ PdfIdle

\* lines 79-85
Conv_79 ==
    /\ dx_pc = "start"
    /\ IF ~input_exists
       THEN /\ dx_success' = FALSE
            /\ dx_pc' = "main_115"
            /\ output_path' = output_path
       ELSE /\ output_path' = IF output_path = "" THEN SplitextRoot(input_path) \o ".md"
                                                     ELSE output_path
            /\ dx_pc' = "rich_18"
            /\ dx_success' = dx_success
    /\ UNCHANGED <<input_path, input_exists, richResult, rawResult, para, remaining,
                   text_parts, dx_text, excMsg, out_file, dx_exit, svcVars, pdfVars>>

\* lines 16-19, 49-50, 74-75: import docx; doc = docx.Document(docx_path)
Rich_18 ==
    /\ dx_pc = "rich_18"
    /\ \/ /\ richResult' = "ok"
          /\ \E n \in 0..MaxParas : remaining' = n
          /\ dx_pc' = "rich_21"
          /\ UNCHANGED <<dx_text, excMsg>>
       \/ \E failure \in {"ImportError", "Exception"} :
             /\ richResult' = failure
             /\ remaining' = remaining
             /\ IF FallsBackToXml(failure)
                THEN /\ dx_pc' = "raw_53"
                     /\ UNCHANGED <<dx_text, excMsg>>
                ELSE /\ \E m \in ErrorTexts :
                          excMsg' = m /\ dx_text' = ErrorMessage(m)
                     /\ dx_pc' = "write_98"
    /\ text_parts' = <<>>
    /\ UNCHANGED <<input_path, output_path, input_exists, rawResult, para,
                   out_file, dx_success, dx_exit, svcVars, pdfVars>>

\* lines 21-48: one turn of the loop over doc.paragraphs, or the return after it
Rich_21 ==
    /\ dx_pc = "rich_21"
    /\ IF remaining = 0
       THEN /\ dx_text' = Concat(text_parts)
            /\ dx_pc' = "write_98"
            /\ UNCHANGED <<para, remaining, text_parts>>
       ELSE /\ \E p \in RichParas :
                 /\ para' = p
                 /\ text_parts' = IF Strip(p.text) = "" THEN text_parts
                                  ELSE Append(text_parts, ParagraphLine(p))
            /\ remaining' = remaining - 1
            /\ UNCHANGED <<dx_pc, dx_text>>
    /\ UNCHANGED <<input_path, output_path, input_exists, richResult, rawResult,
                   excMsg, out_file, dx_success, dx_exit, svcVars, pdfVars>>

\* lines 53-61, 74-75: open the container, read and parse word/document.xml
Raw_53 ==
    /\ dx_pc = "raw_53"
    /\ \/ /\ rawResult' = "ok"
          /\ \E n \in 0..MaxParas : remaining' = n
          /\ dx_pc' = "raw_62"
          /\ UNCHANGED <<dx_text, excMsg>>
       \/ /\ rawResult' = "Exception"
          /\ \E m \in ErrorTexts : excMsg' = m /\ dx_text' = ErrorMessage(m)
          /\ dx_pc' = "write_98"
          /\ remaining' = remaining
    /\ text_parts' = <<>>
    /\ UNCHANGED <<input_path, output_path, input_exists, richResult, para,
                   out_file, dx_success, dx_exit, svcVars, pdfVars>>

\* lines 62-72: one turn of the loop over the w:p elements, or the return after it
Raw_62 ==
    /\ dx_pc = "raw_62"
    /\ IF remaining = 0
       THEN /\ dx_text' = Join("\n\n", text_parts)
            /\ dx_pc' = "write_98"
            /\ UNCHANGED <<para, remaining, text_parts>>
       ELSE /\ \E p \in RawParas :
                 /\ para' = p
                 /\ text_parts' = IF RawParagraphText(p) = "" THEN text_parts
                                  ELSE Append(text_parts, RawParagraphText(p))
            /\ remaining' = remaining - 1
            /\ UNCHANGED <<dx_pc, dx_text>>
    /\ UNCHANGED <<input_path, output_path, input_exists, richResult, rawResult,
                   excMsg, out_file, dx_success, dx_exit, svcVars, pdfVars>>

\* lines 91-105: the document is put together and written. The try block can
\* raise in open (no file), in write (a partial file), or in the print of the
\* success message on line 101 (the file is complete)
Write_98 ==
    /\ dx_pc = "write_98"
    /\ \E outcome \in {"ok", "open_raises", "write_raises", "print_raises"} :
          /\ out_file' =
                IF outcome = "open_raises" THEN out_file
                ELSE IF outcome = "write_raises"
                     THEN [path |-> output_path, content |-> "", state |-> "partial"]
                     ELSE [path |-> output_path,
                           content |-> Markdown(input_path, dx_text),
                           state |-> IF outcome = "ok" THEN "written" ELSE "written_then_raised"]
          /\ dx_success' = (outcome = "ok")
    /\ dx_pc' = "main_115"
    /\ UNCHANGED <<input_path, output_path, input_exists, richResult, rawResult, para,
                   remaining, text_parts, dx_text, excMsg, dx_exit, svcVars, pdfVars>>

\* line 115: sys.exit(0 if success else 1)
Main_115 ==
    /\ dx_pc = "main_115"
    /\ dx_exit' = IF dx_success THEN 0 ELSE 1
    /\ dx_pc' = "exited"
    /\ UNCHANGED <<input_path, output_path, input_exists, richResult, rawResult, para,
                   remaining, text_parts, dx_text, excMsg, out_file, dx_success,
                   svcVars, pdfVars>>

NextDocx == Conv_79 \/ Rich_18 \/ Rich_21 \/ Raw_53 \/ Raw_62 \/ Write_98 \/ Main_115

SpecDocx == InitDocx /\ [][NextDocx]_vars

(***************************************************************************)
(* Claims about the model service                                          *)
(***************************************************************************)

\* a request in slot t has been answered
Answered(t) == pc[t] = "idle" /\ resp[t] # NoResp

\* C2: in remote mode, when the chat-completions POST returns a status S other
\* than 200 with body B, POST /api/v1/generate fails with exactly status S and
\* detail B.
C2_RemoteErrorVerbatim ==
    \A t \in Slots :
        (~LOCAL_MODE /\ kind[t] = "generate" /\ Answered(t)
           /\ remote[t].status \notin {0, 200})
        => (resp[t].status = remote[t].status /\ resp[t].detail = remote[t].body)

HandleLoaded == _model # None /\ _tokenizer # None

\* C3: requests handled one at a time in local mode: once both _model and
\* _tokenizer are non-null, no later step changes either of them, and the loading
\* block of load_local_model is never entered again.
C3_HandleCached ==
    [][(LOCAL_MODE /\ HandleLoaded)
         => (_model' = _model /\ _tokenizer' = _tokenizer /\ nLoads' = nLoads)]_vars

\* a request that found the handle loaded, did no load, and was served by the tokenizer
C3_Witness ==
    \E t \in Slots :
        /\ LOCAL_MODE /\ HandleLoaded /\ Answered(t)
        /\ loadResult[t] = "none" /\ path[t] = "encoded" /\ resp[t].status = 200
        /\ nLoads = 1 /\ nreq = MaxRequests

FailurePaths == {"no_tokenizer", "encode_raised", "exception", "non200",
                 "bad_json", "no_key", "unusable_value"}

\* C5: whenever the counting path of a token_count request fails (no tokenizer,
\* encode raises, remote exception, non-200, a 200 without a usable token_count)
\* the answer is a success carrying exactly floor(len(text)/4).
C5_TokenCountNeverFails ==
    \A t \in Slots :
        (kind[t] = "token_count" /\ Answered(t) /\ path[t] \in FailurePaths)
        => (resp[t].status = 200 /\ resp[t].token_count = IntVal(Fallback(text[t])))

\* C10: requests handled one at a time in local mode: the state "model loaded,
\* tokenizer null" is never reached; between requests _model is null iff
\* _tokenizer is null; a request whose load failed (import, tokenizer, or model
\* after the tokenizer loaded) ends with the handle (null, null); and a request
\* that starts on a null handle enters the loading block again.
C10_HandlePairConsistent ==
    /\ [](~(_model # None /\ _tokenizer = None))
    /\ [](Serial => ((_model = None) <=> (_tokenizer = None)))
    /\ [][\A t \in Slots :
            (pc[t] # "idle" /\ pc'[t] = "idle"
               /\ loadResult'[t] \in {"ImportError", "TokenizerError", "ModelError"})
            => HandleIsNull']_vars
    /\ [][\A t \in Slots :
            (HandleIsNull /\ pc'[t] # pc[t])
            => /\ pc[t] \in {"ctl_82", "gl_125"} => pc'[t] = "llm_50"
               /\ pc[t] = "llm_50" => pc'[t] = "llm_60"]_vars

\* a request whose model load failed after its tokenizer had loaded has been
\* answered, and an earlier load had failed too
C10_Witness ==
    \E t \in Slots :
        /\ LOCAL_MODE /\ Answered(t) /\ loadResult[t] = "ModelError"
        /\ HandleIsNull /\ nLoads >= 2


(***************************************************************************)
(* Claims about the PDF tool                                               *)
(***************************************************************************)

\* extractor i yields text that is present and non-blank
Good(i) ==
    /\ pdf_lib[i].kind = "pages"
    /\ \E j \in 1..Len(pdf_lib[i].pages) : pdf_lib[i].pages[j] = "a"

\* the text extractor i yields: every non-empty page followed by a newline
GoodText(i) ==
    LET pg == pdf_lib[i].pages
        line(j) == IF pg[j] = "" THEN "" ELSE pg[j] \o "\n"
    IN  Concat([j \in 1..Len(pg) |-> line(j)])

PdfRan == pdf_pc = "exited" /\ pdf_argv

\* C1: for every combination of per-extractor outcomes (text, blank, absent or
\* exception), the tool prints the text of the first extractor, in the order
\* pdfplumber, pypdf, PyPDF2, whose result is present and non-blank.
C1_FirstNonBlankWins ==
    (PdfRan /\ \A i \in 1..NExtractors : pdf_lib[i].kind # "interrupt")
    => \A i \in 1..NExtractors :
          (Good(i) /\ \A j \in 1..(i - 1) : ~Good(j))
          => (pdf_stdout = GoodText(i) /\ pdf_exit = 0)

\* C7: given a path, when no extractor yields present, non-blank text the tool
\* writes nothing to standard output, an error message to standard error, and
\* exits 1; and it exits 0 only having printed some extractor's non-blank text.
C7_TotalFailure ==
    PdfRan =>
      /\ (\A i \in 1..NExtractors : ~Good(i))
            => (pdf_stdout = "" /\ pdf_stderr # "" /\ pdf_exit = 1)
      /\ pdf_exit = 0
            => \E i \in 1..NExtractors :
                   Good(i) /\ pdf_stdout = GoodText(i) /\ pdf_stderr = ""

\* total failure with a library that is absent, one that raises and one that
\* reads blank pages only
C7_Witness ==
    /\ PdfRan /\ pdf_exit = 1 /\ pdf_stdout = ""
    /\ pdf_lib[1].kind = "pages" /\ pdf_lib[1].pages = <<" ", "">>
    /\ pdf_lib[2].kind = "ImportError"
    /\ pdf_lib[3].kind = "Exception"


(***************************************************************************)
(* Claims about the DOCX tool                                              *)
(***************************************************************************)

\* extract_text_from_docx has returned
ExtractDone == input_exists /\ dx_pc \in {"write_98", "main_115", "exited"}

IsErrorMessage(t) == StartsWith(t, "Error extracting text: ")

\* C6: when python-docx is installed but raises on the document, or returns
\* blank text, extract_text_from_docx goes on to the raw container/XML parse.
C6_ParseFailureDegrades ==
    (ExtractDone /\ (richResult = "Exception" \/ (richResult = "ok" /\ Strip(dx_text) = "")))
    => rawResult # "not_run"

\* C6 as amended: the raw container/XML parse runs exactly when python-docx
\* cannot be imported, and then its text is returned; when python-docx is
\* installed its outcome is final: an exception gives the error-message string
\* and blank text is returned as it is. The error-message string is produced
\* exactly when the one extractor that ran raised.
C6_FallbackOnlyOnImportError ==
    ExtractDone =>
      /\ (rawResult # "not_run") <=> (richResult = "ImportError")
      /\ richResult = "Exception" => dx_text = "Error extracting text: " \o excMsg
      /\ (richResult = "ok" /\ text_parts = <<>>) => dx_text = ""
      /\ (rawResult = "ok" /\ Len(text_parts) = 1) => dx_text = text_parts[1]
      /\ IsErrorMessage(dx_text) <=> (richResult = "Exception" \/ rawResult = "Exception")

\* python-docx raised on the document, the XML parse was not tried, and the
\* error message was written out
C6_Witness ==
    /\ dx_pc = "exited" /\ input_exists
    /\ richResult = "Exception" /\ rawResult = "not_run"
    /\ IsErrorMessage(dx_text) /\ out_file.state = "written"

\* the title the H1 line is to carry for each stem
TitleOf == ("r" :> "r") @@ ("a_b" :> "a b") @@ ("x-y_z" :> "x y z")

ClaimedLevel ==
    ("Heading 1" :> 1) @@ ("Heading 2" :> 2) @@ ("Heading 3" :> 3) @@ ("Heading 4" :> 4)
    @@ ("Heading 5" :> 2) @@ ("Heading 10" :> 2) @@ ("Heading" :> 2)

\* C9: a non-blank paragraph whose style name starts with 'Heading' is emitted as
\* N '#', a space and the text, N being the level named by 'Heading 1' to
\* 'Heading 4' and 2 for every other heading style name ('Heading 5',
\* 'Heading 10', 'Heading'); any other paragraph is emitted without '#'.
C9_HeadingLevels ==
    (dx_pc = "rich_21" /\ para \in RichParas /\ para.text = " x ")
    => text_parts[Len(text_parts)] =
          (IF para.style.kind = "name" /\ para.style.name \in DOMAIN ClaimedLevel
           THEN Repeat("#", ClaimedLevel[para.style.name]) \o " " ELSE "")
          \o "x\n\n"

====
